---- MODULE Spec2Model ----
(***************************************************************************)
(* Copy-on-write B+tree of database/btree/btree.go, driven through the     *)
(* in-memory page table of the test container C (NewC).                    *)
(*                                                                         *)
(* A BNode is modelled as the Go slice it is: the bytes of its backing     *)
(* array (b, whose length is the capacity), the slice length (len) and a   *)
(* flag ok that turns FALSE when an operation on it panics (a failed       *)
(* utils.Assert or a Go run-time bounds check).  All positions are the     *)
(* 0-based byte positions of the source; uint16 arithmetic wraps.          *)
(***************************************************************************)
EXTENDS Integers, Sequences, FiniteSets, TLC

HEADER == 4
BTREE_PAGE_SIZE == 4096
BTREE_MAX_KEY_SIZE == 1000
BTREE_MAX_VALUE_SIZE == 3000
BNODE_NODE == 1
BNODE_LEAF == 2

U16(x) == x % 65536

Min(a, b) == IF a < b THEN a ELSE b

ZeroPage == [i \in 1..BTREE_PAGE_SIZE |-> 0]

\* make([]byte, n) for the two sizes the program uses
make(n) ==
  [b |-> IF n = BTREE_PAGE_SIZE THEN ZeroPage ELSE ZeroPage \o ZeroPage,
   len |-> n, ok |-> TRUE]

\* BNode{} : the empty slice that signals "key not found"
EmptyNode == [b |-> <<>>, len |-> 0, ok |-> TRUE]

Panic(node) == [node EXCEPT !.ok = FALSE]

\* results of the accessors: a value, or a panic
Ok(v) == [ok |-> TRUE, v |-> v]
Err == [ok |-> FALSE, v |-> 0]

\* local bindings: K is applied to a value computed once
With(x, K(_)) == K(x)
\* K continues with the value of an accessor; its panic ends the accessor at hand
Then(r, K(_)) == IF r.ok THEN K(r.v) ELSE Err
\* K continues with the value of an accessor; its panic ends the building of node
OnNode(r, node, K(_)) == IF r.ok /\ node.ok THEN K(r.v) ELSE Panic(node)

\* binary.LittleEndian.Uint16(node[pos:]) ; panics when pos+2 > len(node)
Uint16(node, pos) ==
  IF ~node.ok \/ pos + 2 > node.len THEN Err
  ELSE Ok(node.b[pos + 1] + 256 * node.b[pos + 2])

\* binary.LittleEndian.PutUint16(node[pos:], v)
PutUint16(node, pos, v) ==
  IF ~node.ok \/ pos + 2 > node.len
    THEN Panic(node)
    ELSE [node EXCEPT !.b = SubSeq(node.b, 1, pos) \o <<v % 256, v \div 256>>
                             \o SubSeq(node.b, pos + 3, Len(node.b))]

\* binary.LittleEndian.Uint64(node[pos:]).  Pointers of the model are below
\* 2^24; a value with any higher byte set stands for 2^24, which is no page.
Uint64(node, pos) ==
  IF ~node.ok \/ pos + 8 > node.len THEN Err
  ELSE Ok(IF \E i \in 4..8 : node.b[pos + i] # 0 THEN 16777216
          ELSE node.b[pos + 1] + 256 * node.b[pos + 2] + 65536 * node.b[pos + 3])

\* binary.LittleEndian.PutUint64(node[pos:], val), for val < 2^24
PutUint64(node, pos, val) ==
  IF ~node.ok \/ pos + 8 > node.len
    THEN Panic(node)
    ELSE [node EXCEPT !.b = SubSeq(node.b, 1, pos)
            \o <<val % 256, (val \div 256) % 256, (val \div 65536) % 256, 0, 0, 0, 0, 0>>
            \o SubSeq(node.b, pos + 9, Len(node.b))]

\* copy(node[pos:], data) : panics when pos > len(node), copies what fits
copy(node, pos, data) ==
  IF ~node.ok \/ pos > node.len
    THEN Panic(node)
    ELSE With(Min(Len(data), node.len - pos), LAMBDA n :
           [node EXCEPT !.b = SubSeq(node.b, 1, pos) \o SubSeq(data, 1, n)
                                \o SubSeq(node.b, pos + n + 1, Len(node.b))])

\* node[pos:][:n] : panics when pos > len(node) or n > cap(node) - pos
Slice(node, pos, n) ==
  IF ~node.ok \/ pos > node.len \/ n > Len(node.b) - pos THEN Err
  ELSE Ok(SubSeq(node.b, pos + 1, pos + n))

\* bytes.Compare(a, b) <= 0 : lexicographic order on byte strings
\* (decided by the first position where a and b differ, if there is one in
\* both, else by the lengths)
Differ(a, b) == {i \in 1..Min(Len(a), Len(b)) : a[i] # b[i]}

BytesLE(a, b) ==
  IF Differ(a, b) = {} THEN Len(a) <= Len(b)
  ELSE With(CHOOSE i \in Differ(a, b) : \A j \in Differ(a, b) : i <= j,
            LAMBDA i : a[i] < b[i])

---------------------------------------------------------------------------
(* Page codec *)

btype(node) == Uint16(node, 0)
nkeys(node) == Uint16(node, 2)

setHeader(node, bt, nk) == PutUint16(PutUint16(node, 0, bt), 2, nk)

getPtr(node, idx) ==
  Then(nkeys(node), LAMBDA nk :
    IF ~(idx < nk) THEN Err ELSE Uint64(node, U16(HEADER + 8 * idx)))

setPtr(node, idx, val) ==
  OnNode(nkeys(node), node, LAMBDA nk :
    IF ~(idx < nk) THEN Panic(node) ELSE PutUint64(node, U16(HEADER + 8 * idx), val))

offsetPos(node, idx) ==
  Then(nkeys(node), LAMBDA nk :
    IF ~(1 <= idx /\ idx <= nk) THEN Err ELSE Ok(U16(HEADER + 8 * nk + 2 * (idx - 1))))

getOffset(node, idx) ==
  IF idx = 0 THEN (IF node.ok THEN Ok(0) ELSE Err)
  ELSE Then(offsetPos(node, idx), LAMBDA pos : Uint16(node, pos))

setOffset(node, idx, offset) ==
  IF idx = 0 THEN node
  ELSE OnNode(offsetPos(node, idx), node, LAMBDA pos : PutUint16(node, pos, offset))

kvPos(node, idx) ==
  Then(nkeys(node), LAMBDA nk :
    IF ~(idx <= nk) THEN Err
    ELSE Then(getOffset(node, idx), LAMBDA off : Ok(U16(HEADER + 8 * nk + 2 * nk + off))))

getKey(node, idx) ==
  Then(nkeys(node), LAMBDA nk :
    IF ~(idx < nk) THEN Err
    ELSE Then(kvPos(node, idx), LAMBDA pos :
           Then(Uint16(node, pos), LAMBDA klen : Slice(node, U16(pos + 4), klen))))

getVal(node, idx) ==
  Then(nkeys(node), LAMBDA nk :
    IF ~(idx < nk) THEN Err
    ELSE Then(kvPos(node, idx), LAMBDA pos :
           Then(Uint16(node, pos), LAMBDA klen :
             Then(Uint16(node, U16(pos + 2)), LAMBDA vlen :
               Slice(node, U16(pos + 4 + klen), vlen)))))

nbytes(node) == Then(nkeys(node), LAMBDA nk : kvPos(node, nk))

\* header fields of a node that holds a header
NK(node) == nkeys(node).v
BT(node) == btype(node).v

---------------------------------------------------------------------------
(* Node construction *)

\* copy a KV into the position
nodeAppendKV(new, idx, ptr, key, val) ==
  With(setPtr(new, idx, ptr), LAMBDA n1 :
    OnNode(kvPos(n1, idx), n1, LAMBDA pos :
      With(copy(copy(PutUint16(PutUint16(n1, pos, Len(key)), U16(pos + 2), Len(val)),
                     U16(pos + 4), key),
                U16(pos + 4 + Len(key)), val), LAMBDA n5 :
        \* the offset of the next key
        OnNode(getOffset(n5, idx), n5, LAMBDA off :
          setOffset(n5, U16(idx + 1), U16(off + 4 + U16(Len(key) + Len(val)))))))) 

\* the pointer loop of nodeAppendRange, iterations i..n-1
RECURSIVE AppendPtrs(_, _, _, _, _, _)
AppendPtrs(new, old, dstNew, srcOld, i, n) ==
  IF i >= n \/ ~new.ok THEN new
  ELSE OnNode(getPtr(old, U16(srcOld + i)), new, LAMBDA p :
         AppendPtrs(setPtr(new, U16(dstNew + i), p), old, dstNew, srcOld, i + 1, n))

\* the offset loop of nodeAppendRange, iterations i..n (the range is [1, n])
RECURSIVE AppendOffsets(_, _, _, _, _, _, _, _)
AppendOffsets(new, old, dstNew, srcOld, dstBegin, srcBegin, i, n) ==
  IF i > n \/ ~new.ok THEN new
  ELSE OnNode(getOffset(old, U16(srcOld + i)), new, LAMBDA o :
         AppendOffsets(setOffset(new, U16(dstNew + i), U16(dstBegin + o - srcBegin + 65536)),
                       old, dstNew, srcOld, dstBegin, srcBegin, i + 1, n))

\* copy multiple KVs into the position from the old node
nodeAppendRange(new, old, dstNew, srcOld, n) ==
  IF ~old.ok THEN Panic(new)
  ELSE
  OnNode(nkeys(old), new, LAMBDA oldKeys :
  OnNode(nkeys(new), new, LAMBDA newKeys :
    IF ~(U16(srcOld + n) <= oldKeys) \/ ~(U16(dstNew + n) <= newKeys) THEN Panic(new)
    ELSE IF n = 0 THEN new
    ELSE
      With(AppendPtrs(new, old, dstNew, srcOld, 0, n), LAMBDA n1 :
      OnNode(getOffset(n1, dstNew), n1, LAMBDA dstBegin :
      OnNode(getOffset(old, srcOld), n1, LAMBDA srcBegin :
        With(AppendOffsets(n1, old, dstNew, srcOld, dstBegin, srcBegin, 1, n), LAMBDA n2 :
        OnNode(kvPos(old, srcOld), n2, LAMBDA begin :
        OnNode(kvPos(old, U16(srcOld + n)), n2, LAMBDA end :
        OnNode(kvPos(n2, dstNew), n2, LAMBDA dpos :
          \* old[begin:end] panics when begin > end or end > cap(old)
          IF begin > end \/ end > Len(old.b) THEN Panic(n2)
          ELSE copy(n2, dpos, SubSeq(old.b, begin + 1, end))))))))))) 

\* the loop of nodeLookupLE
RECURSIVE LookupLoop(_, _, _, _, _)
LookupLoop(node, key, left, right, found) ==
  IF ~(left <= right) THEN Ok(found)
  ELSE With(U16(left + right) \div 2, LAMBDA mid :
         Then(getKey(node, mid), LAMBDA k :
           IF BytesLE(k, key)
             THEN LookupLoop(node, key, U16(mid + 1), right, mid)
             ELSE LookupLoop(node, key, left, U16(mid - 1 + 65536), found)))

\* returns the first kid node whose range intersects the key. (kid[i] <= key)
nodeLookupLE(node, key) ==
  Then(nkeys(node), LAMBDA nk : LookupLoop(node, key, 1, U16(nk - 1 + 65536), 0))

\* add a new key to a leaf node
leafInsert(new, old, idx, key, val) ==
  OnNode(nkeys(old), new, LAMBDA nk :
    nodeAppendRange(
      nodeAppendKV(
        nodeAppendRange(setHeader(new, BNODE_LEAF, U16(nk + 1)), old, 0, 0, idx),
        idx, 0, key, val),
      old, U16(idx + 1), idx, U16(nk - idx + 65536)))

\* update the value of an existing key of a leaf node
leafUpdate(new, old, idx, key, val) ==
  OnNode(nkeys(old), new, LAMBDA nk :
    nodeAppendRange(
      nodeAppendKV(
        nodeAppendRange(setHeader(new, BNODE_LEAF, nk), old, 0, 0, U16(idx - 1 + 65536)),
        idx, 0, key, val),
      old, idx, idx, U16(nk - idx + 65536)))

\* remove a key from a leaf node
leafDelete(new, old, idx) ==
  OnNode(nkeys(old), new, LAMBDA nk :
    nodeAppendRange(
      nodeAppendRange(setHeader(new, BNODE_LEAF, U16(nk - 1 + 65536)), old, 0, 0, idx),
      old, idx, U16(idx + 1), U16(nk - idx - 1 + 131072)))

\* merge 2 nodes into 1
nodeMerge(new, left, right) ==
  OnNode(nkeys(left), new, LAMBDA lk :
  OnNode(nkeys(right), new, LAMBDA rk :
    nodeAppendRange(
      nodeAppendRange(setHeader(new, BNODE_NODE, U16(lk + rk)), left, 0, 0, lk),
      right, lk, 0, rk)))

\* replace 2 adjacent links with 1
nodeReplace2Kid(new, old, idx, ptr, key) ==
  OnNode(nkeys(old), new, LAMBDA nk :
    nodeAppendRange(
      nodeAppendKV(
        nodeAppendRange(setHeader(new, BNODE_NODE, U16(nk - 1 + 65536)), old, 0, 0, idx),
        idx, ptr, key, <<>>),
      old, U16(idx + 1), U16(idx + 2), U16(nk - idx - 1 + 131072)))

\* split a oversized node into 2 so that the 2nd node always fits on a page
nodeSplit2(left, right, old) ==
  With(nbytes(old), LAMBDA nb :
    IF ~nb.ok \/ ~(nb.v > BTREE_PAGE_SIZE)
      THEN [left |-> Panic(left), right |-> Panic(right)]
      ELSE
        With(NK(old) - NK(old) \div 2, LAMBDA leftNKey :
        With(nodeAppendRange(setHeader(left, BT(old), leftNKey), old, 0, 0, leftNKey),
             LAMBDA l1 :
          [left |-> l1,
           \* the right half is only built when the left one did not panic
           right |-> IF l1.ok
                       THEN nodeAppendRange(setHeader(right, BT(old), NK(old) \div 2),
                                            old, 0, leftNKey, NK(old) \div 2)
                       ELSE Panic(right)])))

\* old[:BTREE_PAGE_SIZE]
Reslice(node) == [node EXCEPT !.len = BTREE_PAGE_SIZE]

NoSplit == [ok |-> FALSE, split |-> <<>>]

Fits(node) == With(nbytes(node), LAMBDA nb : nb.ok /\ nb.v <= BTREE_PAGE_SIZE)

\* split a node if it's too big. the results are 1~3 nodes.
nodeSplit3(old) ==
  IF ~nbytes(old).ok THEN NoSplit
  ELSE IF Fits(old) THEN [ok |-> TRUE, split |-> <<Reslice(old)>>]
  ELSE
    With(nodeSplit2(make(2 * BTREE_PAGE_SIZE), make(BTREE_PAGE_SIZE), old), LAMBDA s :
      IF ~s.left.ok \/ ~s.right.ok THEN NoSplit
      ELSE IF Fits(s.left) THEN [ok |-> TRUE, split |-> <<Reslice(s.left), s.right>>]
      ELSE
        With(nodeSplit2(make(BTREE_PAGE_SIZE), make(BTREE_PAGE_SIZE), s.left), LAMBDA t :
          IF ~t.left.ok \/ ~t.right.ok \/ ~Fits(t.left) THEN NoSplit
          ELSE [ok |-> TRUE, split |-> <<t.left, t.right, s.right>>]))

---------------------------------------------------------------------------
(* The page table of the test container C.  A machine state m holds the    *)
(* table (pages), the calls made on it by the running operation (log) and  *)
(* ok, FALSE once the operation has panicked.                              *)

Fail(m) == [m EXCEPT !.ok = FALSE]

Called(m, call, ptr) == [m EXCEPT !.log = Append(@, <<call, ptr>>)]

Freed(m) == {m.log[i][2] : i \in {j \in 1..Len(m.log) : m.log[j][1] = "del"}}

\* the address of a buffer: any nonzero value that names neither a page of the
\* table nor a buffer the running operation still references; since a pointer
\* is opaque, the least such value stands for all of them
\* (the file of a KV, marked by a field file of m, numbers its pages as they
\* are appended)
FreshPtr(m) ==
  IF "file" \in DOMAIN m THEN Cardinality(DOMAIN m.pages) + 1
  ELSE With(DOMAIN m.pages \cup Freed(m), LAMBDA used :
         CHOOSE p \in 1..(Cardinality(used) + 1) :
           p \notin used /\ \A q \in 1..(p - 1) : q \in used)

\* get: dereference a pointer
Get(m, ptr) ==
  IF ~m.ok THEN [m |-> m, node |-> EmptyNode]
  ELSE IF ptr \notin DOMAIN m.pages
    THEN [m |-> Fail(Called(m, "get", ptr)), node |-> EmptyNode]
    ELSE [m |-> Called(m, "get", ptr), node |-> m.pages[ptr]]

\* new: allocate a new page
New(m, node) ==
  IF ~m.ok \/ ~node.ok THEN [m |-> Fail(m), ptr |-> 0]
  ELSE IF ~Fits(node) \/ node.len = 0
    THEN [m |-> Fail(Called(m, "new", 0)), ptr |-> 0]
    ELSE With(FreshPtr(m), LAMBDA ptr :
           [m |-> [Called(m, "new", ptr) EXCEPT
                     !.pages = [q \in DOMAIN @ \cup {ptr} |-> IF q = ptr THEN node ELSE @[q]]],
            ptr |-> ptr])

\* del: deallocate a page (a KV sets Del to func(uint64) {})
Del(m, ptr) ==
  IF ~m.ok THEN m
  ELSE IF "file" \in DOMAIN m THEN Called(m, "del", ptr)
  ELSE IF ptr \notin DOMAIN m.pages THEN Fail(Called(m, "del", ptr))
  ELSE [Called(m, "del", ptr) EXCEPT !.pages = [q \in DOMAIN @ \ {ptr} |-> @[q]]]

---------------------------------------------------------------------------
(* Tree engine.  The operations return the machine state they leave (m,    *)
(* with m.ok FALSE when they panicked) beside their result.                *)

Miss(m) == [m |-> m, val |-> <<>>, found |-> FALSE]

\* K continues with the value of an accessor; its panic ends the operation
OnRead(r, m, K(_)) == IF r.ok /\ m.ok THEN K(r.v) ELSE Miss(Fail(m))

RECURSIVE treeRead(_, _, _)
treeRead(m, node, key) ==
  OnRead(nodeLookupLE(node, key), m, LAMBDA idx :
  OnRead(btype(node), m, LAMBDA bt :
    IF bt = BNODE_LEAF THEN
      OnRead(getKey(node, idx), m, LAMBDA k :
        IF key = k
          THEN OnRead(getVal(node, idx), m, LAMBDA v : [m |-> m, val |-> v, found |-> TRUE])
          ELSE Miss(m))
    ELSE IF bt = BNODE_NODE THEN
      OnRead(getPtr(node, idx), m, LAMBDA p :
        With(Get(m, p), LAMBDA g :
          IF ~g.m.ok THEN Miss(g.m) ELSE treeRead(g.m, g.node, key)))
    ELSE Miss(Fail(m))))   \* panic("bad node!")

\* Read the value corresponding to the key
Read(m, root, key) ==
  IF root = 0 THEN Miss(m)
  ELSE With(Get(m, root), LAMBDA g :
         IF ~g.m.ok THEN Miss(g.m) ELSE treeRead(g.m, g.node, key))

\* a rebuilt node, or the panic of the operation
Built(m, node) == [m |-> IF node.ok THEN m ELSE Fail(m), node |-> node]

\* K continues with the value of an accessor; its panic ends the operation
OnTree(r, m, K(_)) == IF r.ok /\ m.ok THEN K(r.v) ELSE [m |-> Fail(m), node |-> EmptyNode]

\* links kids[i..] under new from position idx on: allocate, then append the link
RECURSIVE LinkKids(_, _, _, _, _)
LinkKids(m, new, idx, kids, i) ==
  IF i > Len(kids) \/ ~m.ok \/ ~new.ok THEN Built(m, new)
  ELSE With(New(m, kids[i]), LAMBDA a :
         IF ~a.m.ok THEN [m |-> a.m, node |-> new]
         ELSE OnTree(getKey(kids[i], 0), a.m, LAMBDA k :
                LinkKids(a.m, nodeAppendKV(new, U16(idx + i - 1), a.ptr, k, <<>>),
                         idx, kids, i + 1)))

\* replace a link with one or multiple links
nodeReplaceKidN(m, new, old, idx, kids) ==
  OnTree(nkeys(old), m, LAMBDA nk :
    With(nodeAppendRange(setHeader(new, BNODE_NODE, U16(nk + Len(kids) - 1 + 65536)),
                         old, 0, 0, idx), LAMBDA n1 :
      IF ~n1.ok THEN Built(m, n1)
      ELSE With(LinkKids(m, n1, idx, kids, 1), LAMBDA r :
             IF ~r.m.ok THEN r
             ELSE Built(r.m, nodeAppendRange(r.node, old, U16(idx + Len(kids)), U16(idx + 1),
                                             U16(nk - (idx + 1) + 131072))))))

RECURSIVE treeInsert(_, _, _, _)

\* part of the treeInsert(): KV insertion to an internal node
nodeInsert(m, new, node, idx, key, val) ==
  OnTree(getPtr(node, idx), m, LAMBDA kptr :
    With(Get(m, kptr), LAMBDA g :
      IF ~g.m.ok THEN [m |-> g.m, node |-> new]
      ELSE With(treeInsert(g.m, g.node, key, val), LAMBDA k :
             IF ~k.m.ok THEN k
             ELSE With(nodeSplit3(k.node), LAMBDA s :
                    IF ~s.ok THEN [m |-> Fail(k.m), node |-> new]
                    ELSE nodeReplaceKidN(Del(k.m, kptr), new, node, idx, s.split)))))

\* insert a KV into a node, the result might be split.
treeInsert(m, node, key, val) ==
  OnTree(nodeLookupLE(node, key), m, LAMBDA idx :
  OnTree(btype(node), m, LAMBDA bt :
    IF bt = BNODE_LEAF THEN
      OnTree(getKey(node, idx), m, LAMBDA k :
        IF key = k
          THEN Built(m, leafUpdate(make(2 * BTREE_PAGE_SIZE), node, idx, key, val))
          ELSE Built(m, leafInsert(make(2 * BTREE_PAGE_SIZE), node, U16(idx + 1), key, val)))
    ELSE IF bt = BNODE_NODE THEN
      nodeInsert(m, make(2 * BTREE_PAGE_SIZE), node, idx, key, val)
    ELSE [m |-> Fail(m), node |-> EmptyNode]))   \* panic("bad node!")

\* the new root of an Insert or Delete: the page allocated last, or the old
\* root when the operation panicked
Rooted(a, root) == [m |-> a.m, root |-> IF a.m.ok THEN a.ptr ELSE root]

\* Insert a new key or update an existing key
Insert(m, root, key, val) ==
  IF root = 0 THEN
    \* create the first node, with a dummy key that covers the whole key space
    Rooted(New(m, nodeAppendKV(
                    nodeAppendKV(setHeader(make(BTREE_PAGE_SIZE), BNODE_LEAF, 2),
                                 0, 0, <<>>, <<>>),
                    1, 0, key, val)), root)
  ELSE
    With(Get(m, root), LAMBDA g :
      IF ~g.m.ok THEN [m |-> g.m, root |-> root]
      ELSE With(treeInsert(g.m, g.node, key, val), LAMBDA t :
        IF ~t.m.ok THEN [m |-> t.m, root |-> root]
        ELSE With(nodeSplit3(t.node), LAMBDA s :
          IF ~s.ok THEN [m |-> Fail(t.m), root |-> root]
          ELSE IF Len(s.split) > 1 THEN
            \* the root was split, add a new level.
            With(LinkKids(Del(t.m, root),
                          setHeader(make(BTREE_PAGE_SIZE), BNODE_NODE, Len(s.split)),
                          0, s.split, 1), LAMBDA r :
              Rooted(New(r.m, r.node), root))
          ELSE Rooted(New(Del(t.m, root), s.split[1]), root))))

NoMerge(m) == [m |-> m, dir |-> 0, sibling |-> EmptyNode]

\* K continues with the value of an accessor; its panic ends the operation
OnMerge(r, m, K(_)) == IF r.ok /\ m.ok THEN K(r.v) ELSE NoMerge(Fail(m))

\* the right-sibling half of shouldMerge
mergeRight(m, node, idx, ub) ==
  OnMerge(nkeys(node), m, LAMBDA nk :
    IF U16(idx + 1) < nk THEN
      OnMerge(getPtr(node, U16(idx + 1)), m, LAMBDA rp :
        With(Get(m, rp), LAMBDA g :
          OnMerge(nbytes(g.node), g.m, LAMBDA sb :
            IF U16(sb + ub - HEADER + 65536) <= BTREE_PAGE_SIZE
              THEN [m |-> g.m, dir |-> 1, sibling |-> g.node]   \* right
              ELSE NoMerge(g.m))))
    ELSE NoMerge(m))

\* shouldMerge with the quarter-page test off by one
shouldMerge_atQuarter(m, node, idx, updated) ==
  OnMerge(nbytes(updated), m, LAMBDA ub :
    IF ub >= BTREE_PAGE_SIZE \div 4 THEN NoMerge(m)
    ELSE IF idx > 0 THEN
      OnMerge(getPtr(node, U16(idx - 1 + 65536)), m, LAMBDA lp :
        With(Get(m, lp), LAMBDA g :
          OnMerge(nbytes(g.node), g.m, LAMBDA sb :
            IF U16(sb + ub - HEADER + 65536) <= BTREE_PAGE_SIZE
              THEN [m |-> g.m, dir |-> -1, sibling |-> g.node]
              ELSE mergeRight(g.m, node, idx, ub))))
    ELSE mergeRight(m, node, idx, ub))

\* should the updated kid be merged with a sibling?
shouldMerge(m, node, idx, updated) ==
  OnMerge(nbytes(updated), m, LAMBDA ub :
    IF ub > BTREE_PAGE_SIZE \div 4 THEN NoMerge(m)
    ELSE IF idx > 0 THEN
      OnMerge(getPtr(node, U16(idx - 1 + 65536)), m, LAMBDA lp :
        With(Get(m, lp), LAMBDA g :
          OnMerge(nbytes(g.node), g.m, LAMBDA sb :
            IF U16(sb + ub - HEADER + 65536) <= BTREE_PAGE_SIZE
              THEN [m |-> g.m, dir |-> -1, sibling |-> g.node]   \* left
              ELSE mergeRight(g.m, node, idx, ub))))
    ELSE mergeRight(m, node, idx, ub))

NotFound(m) == [m |-> m, node |-> EmptyNode]

\* the merge cases of nodeDelete: merge left and right, deallocate the sibling at
\* sidx, and replace the links at at, at+1 of node with one to the merged node
mergeKids(m, node, left, right, sidx, at) ==
  With(nodeMerge(make(BTREE_PAGE_SIZE), left, right), LAMBDA merged :
    IF ~merged.ok THEN NotFound(Fail(m))
    ELSE OnTree(getPtr(node, sidx), m, LAMBDA sp :
      With(New(Del(m, sp), merged), LAMBDA a :
        IF ~a.m.ok THEN NotFound(a.m)
        ELSE OnTree(getKey(merged, 0), a.m, LAMBDA k :
               Built(a.m, nodeReplace2Kid(make(BTREE_PAGE_SIZE), node, at, a.ptr, k))))))

RECURSIVE treeDelete(_, _, _)

\* delete a key from an internal node; part of the treeDelete()
nodeDelete(m, node, idx, key) ==
  OnTree(getPtr(node, idx), m, LAMBDA kptr :
    With(Get(m, kptr), LAMBDA g :
      IF ~g.m.ok THEN NotFound(g.m)
      ELSE With(treeDelete(g.m, g.node, key), LAMBDA u :
        IF ~u.m.ok \/ u.node.len = 0 THEN NotFound(u.m)   \* not found
        ELSE With(shouldMerge(Del(u.m, kptr), node, idx, u.node), LAMBDA sm :
          IF ~sm.m.ok THEN NotFound(sm.m)
          ELSE IF sm.dir < 0 THEN   \* left
            mergeKids(sm.m, node, sm.sibling, u.node, U16(idx - 1 + 65536),
                      U16(idx - 1 + 65536))
          ELSE IF sm.dir > 0 THEN   \* right
            mergeKids(sm.m, node, u.node, sm.sibling, U16(idx + 1), idx)
          ELSE IF NK(u.node) = 0 THEN
            \* 1 empty child but no sibling: the parent becomes empty too
            IF ~(NK(node) = 1 /\ idx = 0) THEN NotFound(Fail(sm.m))
            ELSE Built(sm.m, setHeader(make(BTREE_PAGE_SIZE), BNODE_NODE, 0))
          ELSE   \* no merge
            nodeReplaceKidN(sm.m, make(BTREE_PAGE_SIZE), node, idx, <<u.node>>)))))

\* delete a key from the tree
treeDelete(m, node, key) ==
  OnTree(nodeLookupLE(node, key), m, LAMBDA idx :
  OnTree(btype(node), m, LAMBDA bt :
    IF bt = BNODE_LEAF THEN
      OnTree(getKey(node, idx), m, LAMBDA k :
        IF key = k THEN Built(m, leafDelete(make(BTREE_PAGE_SIZE), node, idx))
        ELSE NotFound(m))
    ELSE IF bt = BNODE_NODE THEN nodeDelete(m, node, idx, key)
    ELSE NotFound(Fail(m))))   \* panic("bad node!")

Deleted(r, ret) == [m |-> r.m, root |-> r.root, ret |-> ret /\ r.m.ok]

\* delete a key and returns whether the key was there
Delete(m, root, key) ==
  With(Get(m, root), LAMBDA g :
    IF ~g.m.ok THEN Deleted([m |-> g.m, root |-> root], FALSE)
    ELSE With(treeDelete(g.m, g.node, key), LAMBDA t :
      IF ~t.m.ok \/ t.node.len = 0 THEN Deleted([m |-> t.m, root |-> root], FALSE)
      ELSE With(Del(t.m, root), LAMBDA d :
        IF ~d.ok THEN Deleted([m |-> d, root |-> root], FALSE)
        \* if 1 key in internal node: remove a level
        ELSE IF BT(t.node) = BNODE_NODE /\ NK(t.node) = 1 THEN
          With(getPtr(t.node, 0), LAMBDA p :
            Deleted([m |-> IF p.ok THEN d ELSE Fail(d),
                     root |-> IF p.ok THEN p.v ELSE root], TRUE))
        ELSE Deleted(Rooted(New(d, t.node), root), TRUE))))


---------------------------------------------------------------------------
(* The test container C: a tree over the page table, and the reference map *)

\* keys are the empty key and the one-byte keys <<1>> .. <<MaxKey>>
MaxKey == 3
\* small values are the one-byte values <<1>> .. <<MaxSmallVal>>
MaxSmallVal == 2
\* the number of Add and Del calls of a run
MaxOps == 3

Keys == {<<>>} \cup {<<k>> : k \in 1..MaxKey}
BigVal == [i \in 1..BTREE_MAX_VALUE_SIZE |-> 9]
Vals == {<<v>> : v \in 1..MaxSmallVal} \cup {BigVal}

VARIABLES
  root,     \* tree.root
  pages,    \* C.pages : the live pages by pointer
  Ref,      \* C.Ref : the reference map of the test container
  status,   \* "ok", or "fatal" once an operation has panicked
  log,      \* the page-table calls of the last operation, in order
  last,     \* the last operation, what it returned, and whether Ref had its key
  nops,     \* the number of Add and Del calls made
  distinct, \* history: every call so far was an Add of a key not added before
  plain,    \* history: no Add or Del so far was given the empty key
  db,       \* the KV object: tree.root, the pages appended and not yet written,
            \* the position in Set/Del/updateFile, and the history of the commit
  file,     \* the file of the KV: pages and root record, written and durable
  fs,       \* the file system SaveData2 works on: contents by file name
  save      \* the running SaveData2: its arguments, position and result

cvars == <<root, pages, Ref, status, log, last, nops, distinct, plain>>
kvvars == <<db, file>>
svvars == <<fs, save>>
vars == <<root, pages, Ref, status, log, last, nops, distinct, plain, db, file, fs, save>>

Machine == [pages |-> pages, log |-> <<>>, ok |-> TRUE]

NoPages == [q \in {} |-> EmptyNode]

\* no KV is open, no SaveData2 is running
NoKV == db = [pc |-> "none"] /\ file = [pc |-> "none"]
NoSave == fs = [pc |-> "none"] /\ save = [pc |-> "none"]

\* NewC()
Init ==
  /\ root = 0
  /\ pages = NoPages
  /\ Ref = [k \in {} |-> <<>>]
  /\ status = "ok"
  /\ log = <<>>
  /\ last = [op |-> "NewC", key |-> <<>>, val |-> <<>>, ret |-> FALSE, had |-> FALSE]
  /\ nops = 0
  /\ distinct = TRUE
  /\ plain = TRUE
  /\ NoKV
  /\ NoSave

\* what an operation that returned r leaves: the table as it is, the root the
\* operation installed, and the process dead if it panicked
Returned(r) ==
  /\ pages' = r.m.pages
  /\ log' = r.m.log
  /\ root' = r.root
  /\ status' = IF r.m.ok THEN "ok" ELSE "fatal"

Added(key, val, r) ==
  /\ Returned(r)
  /\ Ref' = IF r.m.ok
              THEN [k \in DOMAIN Ref \cup {key} |-> IF k = key THEN val ELSE Ref[k]]
              ELSE Ref
  /\ last' = [op |-> "Add", key |-> key, val |-> val, ret |-> r.m.ok,
              had |-> key \in DOMAIN Ref]

\* C.Add: tree.Insert, then Ref[key] = val
Add(key, val) ==
  /\ status = "ok"
  /\ nops < MaxOps
  /\ nops' = nops + 1
  /\ distinct' = (distinct /\ key \notin DOMAIN Ref)
  /\ plain' = (plain /\ key # <<>>)
  /\ Added(key, val, Insert(Machine, root, key, val))
  /\ UNCHANGED <<kvvars, svvars>>

Removed(key, r) ==
  /\ Returned(r)
  /\ Ref' = IF r.m.ok THEN [k \in DOMAIN Ref \ {key} |-> Ref[k]] ELSE Ref
  /\ last' = [op |-> "Del", key |-> key, val |-> <<>>, ret |-> r.ret,
              had |-> key \in DOMAIN Ref]

\* C.Del: tree.Delete, then delete(Ref, key)
CDel(key) ==
  /\ status = "ok"
  /\ nops < MaxOps
  /\ nops' = nops + 1
  /\ distinct' = FALSE
  /\ plain' = (plain /\ key # <<>>)
  /\ Removed(key, Delete(Machine, root, key))
  /\ UNCHANGED <<kvvars, svvars>>

Looked(key, r) ==
  /\ log' = r.m.log
  /\ status' = IF r.m.ok THEN "ok" ELSE "fatal"
  /\ last' = [op |-> "Read", key |-> key, val |-> r.val, ret |-> r.found,
              had |-> key \in DOMAIN Ref]
  /\ UNCHANGED <<root, pages, Ref, nops, distinct, plain>>

\* C.Read: tree.Read
CRead(key) ==
  /\ status = "ok"
  /\ Looked(key, Read(Machine, root, key))
  /\ UNCHANGED <<kvvars, svvars>>

Next ==
  \/ \E key \in Keys, val \in Vals : Add(key, val)
  \/ \E key \in Keys : CDel(key)
  \/ \E key \in Keys : CRead(key)

Spec == Init /\ [][Next]_vars

---------------------------------------------------------------------------
(* Properties of the tree, stated over the container *)

\* tree.Read(key) in the current state
ReadNow(key) == Read(Machine, root, key)

\* Read(key) returns (val, true)
Reads(key, val) == With(ReadNow(key), LAMBDA r : r.m.ok /\ r.found /\ r.val = val)

\* Read(key) returns not-found
ReadsNothing(key) == With(ReadNow(key), LAMBDA r : r.m.ok /\ ~r.found)

\* every key of the reference map reads its value
AllReadable == \A k \in DOMAIN Ref : Reads(k, Ref[k])

\* the keys that the tree stores as ordinary entries: all but the empty key,
\* which is the key of the dummy entry of the first leaf
UserKeys == Keys \ {<<>>}

\* C1: from the empty tree, after Inserts with pairwise distinct (non-empty)
\* keys every Insert has completed and every inserted key reads the value
\* written for it
C1_ReadAfterWrite == (distinct /\ plain) => (status = "ok" /\ AllReadable)

\* the step is a call of C.Add(key, val), resp. C.Del(key)
AddStep(key, val) ==
  nops' = nops + 1 /\ last'.op = "Add" /\ last'.key = key /\ last'.val = val
DelStep(key) == nops' = nops + 1 /\ last'.op = "Del" /\ last'.key = key

\* the leaf that the lookup of key ends in, below node
RECURSIVE FindLeaf(_, _)
FindLeaf(node, key) ==
  IF BT(node) # BNODE_NODE THEN node
  ELSE With(getPtr(node, nodeLookupLE(node, key).v).v, LAMBDA p :
         IF p \in DOMAIN pages THEN FindLeaf(pages[p], key) ELSE EmptyNode)

LeafOf(key) == IF root \in DOMAIN pages THEN FindLeaf(pages[root], key) ELSE EmptyNode

\* the entries of a node: key and value by index
Entries(node) == [i \in 0..(NK(node) - 1) |-> <<getKey(node, i), getVal(node, i)>>]

\* new is old with the value at idx replaced by val, and nothing else changed
UpdatedAt(new, old, idx, key, val) ==
  /\ new.len # 0
  /\ NK(new) = NK(old)
  /\ Entries(new) = [Entries(old) EXCEPT ![idx] = <<Ok(key), Ok(val)>>]

\* C2: in a run without the empty key, an Insert of a key that is stored
\* rebuilds its leaf with the
\* same key count and the other entries unchanged, the new value at the index
\* of the key; then the key reads the new value and the other keys their values
C2_Update ==
  [][\A k \in DOMAIN Ref \cap UserKeys, v \in Vals :
       (plain /\ AddStep(k, v)) =>
         /\ status' = "ok"
         /\ UpdatedAt(LeafOf(k)', LeafOf(k), nodeLookupLE(LeafOf(k), k).v, k, v)
         /\ Reads(k, v)'
         /\ \A o \in DOMAIN Ref \ {k} : Reads(o, Ref[o])']_vars

\* C3: in a run without the empty key, a Delete of a stored key returns true,
\* then the key reads not-found and every other key reads its value
C3_DeleteStored ==
  (plain /\ last.op = "Del" /\ last.had) =>
    /\ status = "ok"
    /\ last.ret
    /\ ReadsNothing(last.key)
    /\ \A o \in DOMAIN Ref \ {last.key} : Reads(o, Ref[o])

\* C4: on a non-empty tree, a Delete of a key that is not stored (the empty key
\* included) returns false and leaves the root and every page as they were
C4_DeleteAbsent ==
  [][\A k \in Keys \ DOMAIN Ref :
       (DelStep(k) /\ root # 0) =>
         /\ status' = "ok"
         /\ ~last'.ret
         /\ root' = root
         /\ pages' = pages]_vars

\* the calls of the last operation on the page table
Calls(call) == {i \in 1..Len(log) : log[i][1] = call}

\* C5: on the empty tree, Delete returns false without dereferencing a pointer
\* and without a fatal error, and the root stays 0
C5_DeleteOnEmpty ==
  [][\A k \in Keys :
       (DelStep(k) /\ root = 0) =>
         /\ status' = "ok"
         /\ ~last'.ret
         /\ root' = 0
         /\ Calls("get")' = {}]_vars

\* C6: in a run whose Inserts and Deletes were of non-empty keys, Read of a key
\* that is not stored (the empty key is one) returns found = false, never a
\* fatal error
C6_ReadMissing ==
  (plain /\ last.op = "Read" /\ ~last.had) => (status = "ok" /\ ~last.ret)

\* the pages reachable from the page at ptr, that page included
RECURSIVE Reachable(_)
Reachable(ptr) ==
  IF ptr \notin DOMAIN pages THEN {}
  ELSE IF BT(pages[ptr]) # BNODE_NODE THEN {ptr}
  ELSE {ptr} \cup UNION {Reachable(getPtr(pages[ptr], i).v) : i \in 0..(NK(pages[ptr]) - 1)}

\* C7: in a run without the empty key, no Insert or Delete calls allocate with
\* a node larger than a page, and every page reachable from the root fits in a
\* page
C7_PageSizeBound ==
  plain =>
    /\ \A i \in Calls("new") : log[i][2] # 0
    /\ status = "ok" => \A p \in Reachable(root) : Fits(pages[p])

\* the root node, as Get(root) returns it
RootNode == IF root \in DOMAIN pages THEN pages[root] ELSE EmptyNode

\* the leaves reachable from the root
Leaves == {p \in Reachable(root) : BT(pages[p]) = BNODE_LEAF}

\* every link of node carries the index-0 key of the child it points to
LinkedByFirstKey(node) ==
  BT(node) = BNODE_NODE =>
    \A i \in 0..(NK(node) - 1) :
      /\ getPtr(node, i).v \in DOMAIN pages
      /\ getKey(node, i) = getKey(pages[getPtr(node, i).v], 0)

\* nodeDelete's decision for the child at idx of node, once the recursive
\* delete has returned u: the key was found and shouldMerge picks a sibling
MergeAt(node, idx, kptr, u) ==
  /\ u.m.ok
  /\ u.node.len # 0
  /\ shouldMerge(Del(u.m, kptr), node, idx, u.node).dir # 0

MergeUnder(node, key, idx) ==
  With(getPtr(node, idx).v, LAMBDA kptr :
    /\ kptr \in DOMAIN pages
    /\ MergeAt(node, idx, kptr, treeDelete(Machine, pages[kptr], key)))

\* Delete(key) leaves the updated child of the root at or below a quarter of a
\* page, next to a sibling that it fits in one page with
MergeDue(key) ==
  /\ BT(RootNode) = BNODE_NODE
  /\ MergeUnder(RootNode, key, nodeLookupLE(RootNode, key).v)

\* C8: in a run without the empty key, a Delete that leaves the updated child
\* due for a merge completes and returns true; the tree then has one leaf
\* fewer, the links of the root carry the index-0 keys of their children, and
\* every surviving key reads its value
C8_Merge ==
  [][\A k \in UserKeys :
       (plain /\ DelStep(k) /\ MergeDue(k)) =>
         /\ status' = "ok"
         /\ last'.ret
         /\ Cardinality(Leaves') = Cardinality(Leaves) - 1
         /\ LinkedByFirstKey(RootNode)'
         /\ AllReadable']_vars

\* the last operation was an Insert into a root leaf that split it: it read
\* and deallocated the root at once, then allocated more than one page (a root
\* leaf that is not split has the three calls get, del, new)
RootLeafSplit ==
  /\ last.op = "Add"
  /\ Len(log) >= 4
  /\ log[2][1] = "del"

\* C9: in a run without the empty key, an Insert of a new key that splits the
\* root leaf completes; the new root is an internal node with at least 2
\* children, one per page allocated for the split, each linked under its
\* index-0 key, and every key inserted so far reads its value
C9_Split ==
  (plain /\ ~last.had /\ RootLeafSplit) =>
    /\ status = "ok"
    /\ BT(RootNode) = BNODE_NODE
    /\ NK(RootNode) >= 2
    /\ NK(RootNode) = Cardinality(Calls("new")) - 1
    /\ LinkedByFirstKey(RootNode)
    /\ AllReadable

\* the number of levels below the pointer, the page at the pointer included
RECURSIVE Height(_)
Height(ptr) ==
  IF ptr \notin DOMAIN pages THEN 0
  ELSE IF BT(pages[ptr]) # BNODE_NODE THEN 1
  ELSE 1 + Height(getPtr(pages[ptr], 0).v)

\* Delete(key) is to rebuild the root with one link: the root has two children
\* and they are due for a merge
CollapseDue(key) == NK(RootNode) = 2 /\ MergeDue(key)

\* C10: in a run without the empty key, a Delete that is to rebuild the root
\* with a single link completes and returns true; the tree is one level lower,
\* the new root is a live page that the Delete did not allocate last (its last
\* call deallocates the old root), and every surviving key reads its value
C10_RootCollapse ==
  [][\A k \in UserKeys :
       (plain /\ DelStep(k) /\ CollapseDue(k)) =>
         /\ status' = "ok"
         /\ last'.ret
         /\ Height(root)' = Height(root) - 1
         /\ root' \in DOMAIN pages'
         /\ log'[Len(log')] = <<"del", root>>
         /\ AllReadable']_vars

---------------------------------------------------------------------------
(* The KV store: a tree over the pages of a file.  The file holds the      *)
(* pages written to it and the root record, each as written and as forced  *)
(* to stable storage.                                                      *)

\* the number of Set and Del calls of a run
MaxKvOps == 2

KvKeys == {<<k>> : k \in 1..2}
KvVals == {<<1>>, BigVal}

\* updateFile without step 2: the root record is written right after the pages
updateFile_noSync(pc, err) ==
  IF err THEN "idle"
  ELSE IF pc = "writePages" THEN "updateRoot"
  ELSE IF pc = "updateRoot" THEN "fsync2"
  ELSE "idle"

\* updateFile: the position after the step at pc returned err
updateFile(pc, err) ==
  IF err THEN "idle"
  ELSE IF pc = "writePages" THEN "fsync1"
  ELSE IF pc = "fsync1" THEN "updateRoot"
  ELSE IF pc = "updateRoot" THEN "fsync2"
  ELSE "idle"

\* the steps of a commit, and those before the root record is written
CommitSteps == {"writePages", "fsync1", "updateRoot", "fsync2"}

\* pageRead sees the pages of the file and the pages appended in memory
Overlay(old, new) ==
  [q \in DOMAIN old \cup DOMAIN new |-> IF q \in DOMAIN new THEN new[q] ELSE old[q]]

MemPages == Overlay(file.pages, db.temp)

FileMachine(pg) == [pages |-> pg, log |-> <<>>, ok |-> TRUE, file |-> TRUE]

\* what Get returns
Seen(r) == [ok |-> r.m.ok, found |-> r.found, val |-> r.val]

\* what Get returns for every key, on the tree at ptr over the pages pg
View(ptr, pg) == [k \in KvKeys |-> Seen(Read(FileMachine(pg), ptr, k))]

\* KV.Open on a new file
KvInit ==
  /\ db = [pc |-> "idle", root |-> 0, temp |-> NoPages, err |-> FALSE,
           steps |-> <<>>, ops |-> 0, at |-> "none",
           pre |-> View(0, NoPages), post |-> View(0, NoPages)]
  /\ file = [pages |-> NoPages, synced |-> {}, root |-> 0, droot |-> 0]
  /\ root = 0
  /\ pages = NoPages
  /\ Ref = [k \in {} |-> <<>>]
  /\ status = "ok"
  /\ log = <<>>
  /\ last = [op |-> "Open", key |-> <<>>, val |-> <<>>, ret |-> FALSE, had |-> FALSE]
  /\ nops = 0
  /\ distinct = TRUE
  /\ plain = TRUE
  /\ NoSave

\* the process is gone: what it held in memory is lost
Down(at) == [db EXCEPT !.pc = "down", !.at = at, !.root = 0, !.temp = NoPages]

\* the tree call of Set or Del returned r: if it panicked the process dies,
\* else the new root and the appended pages are in memory and updateFile begins
Began(r) ==
  db' = IF r.m.ok
          THEN [db EXCEPT !.pc = "writePages", !.root = r.root,
                          !.temp = [q \in DOMAIN r.m.pages \ DOMAIN file.pages |-> r.m.pages[q]],
                          !.err = FALSE, !.steps = <<>>, !.ops = @ + 1, !.at = "none",
                          !.pre = View(db.root, MemPages),
                          !.post = View(r.root, r.m.pages)]
          ELSE [Down("tree") EXCEPT !.steps = <<>>, !.ops = @ + 1,
                                    !.pre = View(db.root, MemPages),
                                    !.post = View(db.root, MemPages)]

\* KV.Set: tree.Insert, then updateFile
KvSet(key, val) ==
  /\ db.pc = "idle"
  /\ db.ops < MaxKvOps
  /\ Began(Insert(FileMachine(MemPages), db.root, key, val))
  /\ UNCHANGED <<file, cvars, svvars>>

\* KV.Del: tree.Delete, then updateFile
KvDel(key) ==
  /\ db.pc = "idle"
  /\ db.ops < MaxKvOps
  /\ Began(Delete(FileMachine(MemPages), db.root, key))
  /\ UNCHANGED <<file, cvars, svvars>>

Got(key, r) ==
  /\ last' = [op |-> "Get", key |-> key, val |-> r.val, ret |-> r.found, had |-> FALSE]
  /\ db' = IF r.m.ok THEN db ELSE Down("get")

\* KV.Get: tree.Read
KvGet(key) ==
  /\ db.pc = "idle"
  /\ Got(key, Read(FileMachine(MemPages), db.root, key))
  /\ UNCHANGED <<file, root, pages, Ref, status, log, nops, distinct, plain, svvars>>

\* the step at pc of updateFile returned err
Stepped(pc, err) ==
  [db EXCEPT !.pc = updateFile(pc, err), !.err = err,
             !.steps = Append(@, [step |-> pc, err |-> err])]

\* 1. Write new nodes: the appended pages go to the file
WritePages(err) ==
  /\ db.pc = "writePages"
  /\ db' = [Stepped("writePages", err) EXCEPT !.temp = IF err THEN @ ELSE NoPages]
  /\ file' = IF err THEN file ELSE [file EXCEPT !.pages = MemPages]
  /\ UNCHANGED <<cvars, svvars>>

\* syscall.Fsync: what was written is on stable storage
Forced == [file EXCEPT !.synced = DOMAIN file.pages, !.droot = file.root]

\* 2. fsync to enforce the order between 1 and 3
Fsync1(err) ==
  /\ db.pc = "fsync1"
  /\ db' = Stepped("fsync1", err)
  /\ file' = IF err THEN file ELSE Forced
  /\ UNCHANGED <<cvars, svvars>>

\* 3. Update the root pointer atomically
UpdateRoot(err) ==
  /\ db.pc = "updateRoot"
  /\ db' = Stepped("updateRoot", err)
  /\ file' = IF err THEN file ELSE [file EXCEPT !.root = db.root]
  /\ UNCHANGED <<cvars, svvars>>

\* 4. fsync to make everything persistent
Fsync2(err) ==
  /\ db.pc = "fsync2"
  /\ db' = Stepped("fsync2", err)
  /\ file' = IF err THEN file ELSE Forced
  /\ UNCHANGED <<cvars, svvars>>

\* the process crashes in updateFile, before the step at db.pc
Crash ==
  /\ db.pc \in CommitSteps
  /\ db' = Down(db.pc)
  /\ UNCHANGED <<file, cvars, svvars>>

\* KV.Open after a crash: the tree is the one of the root record
KvOpen ==
  /\ db.pc = "down"
  /\ db' = [db EXCEPT !.pc = "idle", !.root = file.root, !.err = FALSE]
  /\ UNCHANGED <<file, cvars, svvars>>

NextKV ==
  \/ \E key \in KvKeys, val \in KvVals : KvSet(key, val)
  \/ \E key \in KvKeys : KvDel(key)
  \/ \E key \in KvKeys : KvGet(key)
  \/ \E err \in BOOLEAN : WritePages(err)
  \/ \E err \in BOOLEAN : Fsync1(err)
  \/ \E err \in BOOLEAN : UpdateRoot(err)
  \/ \E err \in BOOLEAN : Fsync2(err)
  \/ Crash
  \/ KvOpen

SpecKV == KvInit /\ [][NextKV]_vars

---------------------------------------------------------------------------
(* Properties of the KV store *)

\* the steps of a commit in their order
Order == <<"writePages", "fsync1", "updateRoot", "fsync2">>

\* some step of the running (or last) commit returned an error
StepFailed == \E i \in 1..Len(db.steps) : db.steps[i].err

\* C11: the steps that a Set or Del has run so far are the first steps of
\* write pages, fsync, write root record, fsync, in this order, and every step
\* but the last one run succeeded (so the root record is written only after
\* the fsync of the pages succeeded, and nothing runs after a failed step); a
\* Set or Del that returns has run all four steps or returns the error
C11_CommitOrder ==
  /\ Len(db.steps) <= Len(Order)
  /\ \A i \in 1..Len(db.steps) :
       /\ db.steps[i].step = Order[i]
       /\ i > 1 => ~db.steps[i - 1].err
  /\ (db.pc = "idle" /\ db.at = "none" /\ db.ops > 0) =>
       /\ db.err = StepFailed
       /\ ~db.err => Len(db.steps) = Len(Order)

\* a Set or Del has run the four steps and returned nil
C11_Committed ==
  /\ db.pc = "idle"
  /\ db.at = "none"
  /\ Len(db.steps) = 4
  /\ ~db.err
  /\ db.root # 0

\* the pages that the tree at ptr consists of, over the pages pg (a pointer to
\* no page of pg counts as a page of the tree)
RECURSIVE ReachIn(_, _)
ReachIn(pg, ptr) ==
  IF ptr = 0 THEN {}
  ELSE IF ptr \notin DOMAIN pg THEN {ptr}
  ELSE IF BT(pg[ptr]) # BNODE_NODE THEN {ptr}
  ELSE {ptr} \cup UNION {ReachIn(pg, getPtr(pg[ptr], i).v) : i \in 0..(NK(pg[ptr]) - 1)}

\* the store was reopened after a crash in a Set or Del
Reopened == db.pc = "idle" /\ db.at \in CommitSteps \cup {"tree"}

\* C12: the durable root record points only to pages that are durable; and
\* when the store is reopened after a crash in a Set or Del, Get returns for
\* every key what it returned before the operation if the crash came before
\* the root record was written, and what it returned after the tree was
\* changed if the crash came after
C12_CrashAtomicity ==
  /\ ReachIn(file.pages, file.droot) \subseteq file.synced
  /\ Reopened =>
       View(db.root, file.pages) = IF db.at = "fsync2" THEN db.post ELSE db.pre

\* the last Set or Del returned an I/O error of step 1 or step 2
FailedBeforeRoot ==
  /\ db.pc = "idle"
  /\ db.at = "none"
  /\ db.err
  /\ Len(db.steps) <= 2

\* C13: when a Set or Del has returned an I/O error of the page write or of
\* the first fsync, the root record is the one of before, the root of the tree
\* in memory is the root of the record, and Get returns for every key what it
\* returned before the operation
C13_NoPartialPublish ==
  FailedBeforeRoot =>
    /\ file.root = file.droot
    /\ db.root = file.root
    /\ View(db.root, MemPages) = db.pre

---------------------------------------------------------------------------
(* The container driven with keys and values beyond the size limits *)

LongKey == [i \in 1..(BTREE_MAX_KEY_SIZE + 1) |-> 7]
LongVal == [i \in 1..(BTREE_MAX_VALUE_SIZE + 1) |-> 9]

Oversize(key, val) == Len(key) > BTREE_MAX_KEY_SIZE \/ Len(val) > BTREE_MAX_VALUE_SIZE

\* C.Add with a key or a value longer than the limit
AddOver ==
  \E key \in UserKeys \cup {LongKey}, val \in Vals \cup {LongVal} :
    Oversize(key, val) /\ Add(key, val)

NextLimits == Next \/ AddOver

SpecLimits == Init /\ [][NextLimits]_vars

\* C14: an Insert with a key longer than 1000 bytes or a value longer than
\* 3000 bytes ends in a fatal error, before any page is allocated or
\* deallocated, and leaves the root pointer and the pages as they were
C14_SizeLimits ==
  [][\A key \in UserKeys \cup {LongKey}, val \in Vals \cup {LongVal} :
       (Oversize(key, val) /\ AddStep(key, val)) =>
         /\ status' = "fatal"
         /\ log' = <<>>
         /\ root' = root
         /\ pages' = pages]_vars

---------------------------------------------------------------------------
(* Properties of the page calls and of the node structure *)

\* C15: in a run without the empty key, every deallocation of an Insert or
\* Delete comes after an allocation of the same operation, and no pointer is
\* deallocated twice
C15_DeallocAfterReplace ==
  plain =>
    /\ \A i \in Calls("del") : \E j \in Calls("new") : j < i /\ log[j][2] # 0
    /\ \A i, j \in Calls("del") : log[i][2] = log[j][2] => i = j

\* the keys of node are in ascending order
Ascending(node) ==
  \A i \in 1..(NK(node) - 1) :
    /\ getKey(node, i - 1).ok
    /\ getKey(node, i).ok
    /\ getKey(node, i - 1).v # getKey(node, i).v
    /\ BytesLE(getKey(node, i - 1).v, getKey(node, i).v)

\* C16: in a run without the empty key, after every completed Insert and
\* Delete the keys of every node reachable from the root are in ascending
\* order, every link of an internal node carries the index-0 key of its child,
\* and the leftmost leaf begins with the empty key
C16_KeyOrder ==
  (plain /\ status = "ok" /\ root # 0) =>
    /\ \A p \in Reachable(root) : Ascending(pages[p]) /\ LinkedByFirstKey(pages[p])
    /\ getKey(LeafOf(<<>>), 0) = Ok(<<>>)

\* the largest index in [1, keyCount-1] whose key is <= key, else 0
Floor(node, key) ==
  With({i \in 1..(NK(node) - 1) : BytesLE(getKey(node, i).v, key)}, LAMBDA le :
    IF le = {} THEN 0 ELSE CHOOSE i \in le : \A j \in le : j <= i)

\* C18: on every node of the page table whose keys are in ascending order and
\* for every search key, nodeLookupLE returns the largest index in
\* [1, keyCount-1] whose key is <= the search key, or 0 when there is none, and
\* reads no index >= keyCount (which would end it with a failed assertion)
C18_FloorIndex ==
  \A p \in DOMAIN pages :
    Ascending(pages[p]) =>
      \A key \in Keys : nodeLookupLE(pages[p], key) = Ok(Floor(pages[p], key))

\* the pointers stored in the internal nodes reachable from the root, and the root
Linked ==
  (IF root = 0 THEN {} ELSE {root}) \cup
  UNION {{getPtr(pages[p], i).v : i \in 0..(NK(pages[p]) - 1)} :
           p \in {q \in Reachable(root) : BT(pages[q]) = BNODE_NODE}}

\* the last operation ended in get or del of a pointer that is not live, or
\* deallocated a pointer a second time
NotLiveUsed ==
  \/ /\ status = "fatal"
     /\ log # <<>>
     /\ log[Len(log)][1] \in {"get", "del"}
     /\ log[Len(log)][2] = 0 \/ log[Len(log)][1] = "get"
     /\ log[Len(log)][2] \notin DOMAIN pages
  \/ \E i, j \in Calls("del") : i < j /\ log[i][2] = log[j][2]

\* C20: after every completed Insert and Delete the live pointers are exactly
\* the pages reachable from the root, every pointer stored in the tree is live,
\* and no operation dereferences or deallocates a pointer that is not live
C20_LiveReachable ==
  /\ (status = "ok" /\ last.op \in {"Add", "Del"}) =>
       (DOMAIN pages = Reachable(root) /\ Linked \subseteq DOMAIN pages)
  /\ ~NotLiveUsed

---------------------------------------------------------------------------
(* The merge decision on its own: a parent of up to MaxKids leaves, the     *)
(* child at idx and its two neighbours of sizes around the two thresholds. *)

MaxKids == 3

Zeros(n) == [i \in 1..n |-> 0]

\* a leaf of size bytes with the two keys <<p>> and <<p, 1>>
SizedLeaf(p, size) ==
  With(Min(BTREE_MAX_VALUE_SIZE, size - 35), LAMBDA v1 :
    nodeAppendKV(
      nodeAppendKV(setHeader(make(BTREE_PAGE_SIZE), BNODE_LEAF, 2), 0, 0, <<p>>, Zeros(v1)),
      1, 0, <<p, 1>>, Zeros(size - 35 - v1)))

\* the sizes of the updated child: small, and on both sides of PAGE_SIZE/4
UpdatedSizes == {37, BTREE_PAGE_SIZE \div 4, BTREE_PAGE_SIZE \div 4 + 1}

\* the sizes of a sibling: small, and on both sides of the page bound for each
\* size of the updated child that may merge
SiblingSizes ==
  {37} \cup {BTREE_PAGE_SIZE + HEADER - u + d : u \in {37, BTREE_PAGE_SIZE \div 4}, d \in {0, 1}}

\* the internal node over the leaves 1..n, page p holding the leaf of key <<p>>
RECURSIVE ParentOf(_, _, _)
ParentOf(node, n, i) ==
  IF i = n THEN node
  ELSE ParentOf(nodeAppendKV(node, i, i + 1, <<i + 1>>, <<>>), n, i + 1)

\* the pages of a parent at n + 1 over n leaves, the neighbours of idx sized
MergePages(n, idx, lsize, rsize) ==
  [p \in 1..(n + 1) |->
     IF p = n + 1 THEN ParentOf(setHeader(make(BTREE_PAGE_SIZE), BNODE_NODE, n), n, 0)
     ELSE IF p = idx THEN SizedLeaf(p, lsize)
     ELSE IF p = idx + 2 THEN SizedLeaf(p, rsize)
     ELSE SizedLeaf(p, 37)]

MergeInit ==
  \E n \in 1..MaxKids, idx \in 0..(MaxKids - 1), lsize \in SiblingSizes,
     rsize \in SiblingSizes, usize \in UpdatedSizes :
    /\ idx < n
    /\ root = n + 1
    /\ pages = MergePages(n, idx, lsize, rsize)
    /\ last = [op |-> "nodeDelete", idx |-> idx, usize |-> usize,
               lsize |-> IF idx > 0 THEN lsize ELSE 0,
               rsize |-> IF idx + 1 < n THEN rsize ELSE 0,
               dir |-> 0, sibling |-> EmptyNode]
    /\ Ref = [k \in {} |-> <<>>]
    /\ status = "ok"
    /\ log = <<>>
    /\ nops = 0
    /\ distinct = TRUE
    /\ plain = TRUE
    /\ NoKV
    /\ NoSave

Decided(r) ==
  /\ last' = [last EXCEPT !.op = "shouldMerge", !.dir = r.dir, !.sibling = r.sibling]
  /\ log' = r.m.log
  /\ status' = IF r.m.ok THEN "ok" ELSE "fatal"

\* nodeDelete asks shouldMerge about the updated child at idx
ShouldMerge ==
  /\ last.op = "nodeDelete"
  /\ Decided(shouldMerge(Machine, pages[root], last.idx, SizedLeaf(last.idx + 1, last.usize)))
  /\ UNCHANGED <<root, pages, Ref, nops, distinct, plain, kvvars, svvars>>

NextMerge == ShouldMerge

SpecMerge == MergeInit /\ [][NextMerge]_vars

\* the merge cases of nodeDelete hand the sibling shouldMerge chose and the
\* updated child, in their order under the parent, to nodeMerge
Merging(left, right) ==
  With(nodeMerge(make(BTREE_PAGE_SIZE), left, right), LAMBDA merged :
    /\ last' = [op |-> "nodeMerge", left |-> left, right |-> right, merged |-> merged]
    /\ status' = IF merged.ok THEN "ok" ELSE "fatal")

NodeMerge ==
  /\ last.op = "shouldMerge"
  /\ last.dir # 0
  /\ IF last.dir < 0
       THEN Merging(last.sibling, SizedLeaf(last.idx + 1, last.usize))
       ELSE Merging(SizedLeaf(last.idx + 1, last.usize), last.sibling)
  /\ UNCHANGED <<root, pages, Ref, log, nops, distinct, plain, kvvars, svvars>>

NextNodeMerge == ShouldMerge \/ NodeMerge

SpecNodeMerge == MergeInit /\ [][NextNodeMerge]_vars

\* the sibling of size bytes fits into one page together with the updated child
FitsWith(size) == size + last.usize - HEADER <= BTREE_PAGE_SIZE

\* the decision the sizes call for: 0 none, -1 left, +1 right
Decision ==
  IF last.usize > BTREE_PAGE_SIZE \div 4 THEN 0
  ELSE IF last.idx > 0 /\ FitsWith(last.lsize) THEN -1
  ELSE IF last.idx + 1 < NK(pages[root]) /\ FitsWith(last.rsize) THEN 1
  ELSE 0

---------------------------------------------------------------------------
(* SaveData2.  fs maps the two file names to their contents; save holds the *)
(* arguments, the position in the function, whether the open file has been *)
(* synced, and the error returned.  A crash leaves of an unsynced file any  *)
(* prefix of what was written.                                             *)

\* the longest contents of a file
MaxData == 2

Contents == UNION {[1..n -> {1, 2}] : n \in 0..MaxData}

NoFile == [exists |-> FALSE, bytes |-> <<>>]
Stored(bytes) == [exists |-> TRUE, bytes |-> bytes]

SavePcs == {"OpenFile", "Write", "Sync", "Rename", "Close"}

SaveInit ==
  \E old \in {NoFile} \cup {Stored(c) : c \in Contents}, data \in Contents :
    /\ fs = [path |-> old, tmp |-> NoFile]
    /\ save = [pc |-> "OpenFile", old |-> old, data |-> data, synced |-> TRUE, err |-> FALSE]
    /\ root = 0
    /\ pages = NoPages
    /\ Ref = [k \in {} |-> <<>>]
    /\ status = "ok"
    /\ log = <<>>
    /\ last = [op |-> "SaveData2", key |-> <<>>, val |-> <<>>, ret |-> FALSE, had |-> FALSE]
    /\ nops = 0
    /\ distinct = TRUE
    /\ plain = TRUE
    /\ NoKV

\* os.OpenFile(path, O_WRONLY|O_CREATE|O_TRUNC): the file at path is emptied
OpenFile(err) ==
  /\ save.pc = "OpenFile"
  /\ IF err
       THEN /\ save' = [save EXCEPT !.pc = "returned", !.err = TRUE]
            /\ fs' = fs
       ELSE /\ save' = [save EXCEPT !.pc = "Write", !.synced = fs.path.exists]
            /\ fs' = [fs EXCEPT !.path = Stored(<<>>)]
  /\ UNCHANGED <<cvars, kvvars>>

\* fp.Write(data): n bytes reach the file, an error when n < len(data)
Write(n) ==
  /\ save.pc = "Write"
  /\ n <= Len(save.data)
  /\ fs' = [fs EXCEPT !.path = Stored(SubSeq(save.data, 1, n))]
  /\ save' = IF n < Len(save.data)
               THEN [save EXCEPT !.pc = "Close", !.err = TRUE, !.synced = FALSE]
               ELSE [save EXCEPT !.pc = "Sync", !.synced = FALSE]
  /\ UNCHANGED <<cvars, kvvars>>

\* fp.Sync()
Sync(err) ==
  /\ save.pc = "Sync"
  /\ save' = IF err THEN [save EXCEPT !.pc = "Close", !.err = TRUE]
                    ELSE [save EXCEPT !.pc = "Rename", !.synced = TRUE]
  /\ fs' = fs
  /\ UNCHANGED <<cvars, kvvars>>

\* os.Rename(tmp, path): fails when there is no file tmp
Rename ==
  /\ save.pc = "Rename"
  /\ IF fs.tmp.exists
       THEN /\ fs' = [path |-> fs.tmp, tmp |-> NoFile]
            /\ save' = [save EXCEPT !.pc = "Close"]
       ELSE /\ fs' = fs
            /\ save' = [save EXCEPT !.pc = "Close", !.err = TRUE]
  /\ UNCHANGED <<cvars, kvvars>>

\* the deferred function: fp.Close(), and when that fails os.Remove(tmp),
\* and when that fails log.Fatal
Close(err) ==
  /\ save.pc = "Close"
  /\ IF ~err THEN save' = [save EXCEPT !.pc = "returned"] /\ fs' = fs
     ELSE IF fs.tmp.exists
       THEN save' = [save EXCEPT !.pc = "returned"] /\ fs' = [fs EXCEPT !.tmp = NoFile]
       ELSE save' = [save EXCEPT !.pc = "fatal"] /\ fs' = fs
  /\ UNCHANGED <<cvars, kvvars>>

\* the machine stops while SaveData2 runs; n bytes of an unsynced file remain
SaveCrash(n) ==
  /\ save.pc \in SavePcs
  /\ n <= Len(fs.path.bytes)
  /\ save.synced => n = Len(fs.path.bytes)
  /\ fs' = [fs EXCEPT !.path.bytes = SubSeq(@, 1, n)]
  /\ save' = [save EXCEPT !.pc = "crashed"]
  /\ UNCHANGED <<cvars, kvvars>>

NextSave ==
  \/ \E err \in BOOLEAN : OpenFile(err)
  \/ \E n \in 0..MaxData : Write(n)
  \/ \E err \in BOOLEAN : Sync(err)
  \/ Rename
  \/ \E err \in BOOLEAN : Close(err)
  \/ \E n \in 0..MaxData : SaveCrash(n)

SpecSave == SaveInit /\ [][NextSave]_vars

\* SaveData2 has stopped without success: a crash, an error return or log.Fatal
SaveStopped ==
  \/ save.pc \in {"crashed", "fatal"}
  \/ save.pc = "returned" /\ save.err

\* C19: whenever SaveData2 has crashed or returned an error, the file at path
\* holds its complete previous contents or the complete new data
C19_AtomicReplace ==
  SaveStopped => (fs.path = save.old \/ fs.path = Stored(save.data))

---------------------------------------------------------------------------
(* Properties of nodeMerge *)

\* entry i of node: its pointer, key and value
EntryAt(node, i) == <<getPtr(node, i), getKey(node, i), getVal(node, i)>>

\* merged holds left's entries followed by right's entries
Concatenated(merged, left, right) ==
  /\ merged.ok
  /\ NK(merged) = NK(left) + NK(right)
  /\ \A i \in 0..(NK(left) - 1) : EntryAt(merged, i) = EntryAt(left, i)
  /\ \A i \in 0..(NK(right) - 1) : EntryAt(merged, NK(left) + i) = EntryAt(right, i)

\* C21: nodeMerge of two siblings of the same kind produces a node of that
\* kind whose entries are left's entries followed by right's entries, with
\* pointers, keys and values unchanged
C21_MergeKind ==
  (last.op = "nodeMerge" /\ BT(last.left) = BT(last.right)) =>
    /\ status = "ok"
    /\ BT(last.merged) = BT(last.left)
    /\ Concatenated(last.merged, last.left, last.right)

====
